---- MODULE Spec2Model ----
(***************************************************************************)
(* Ledger microservice (src/app/main.py): per-account balance and hold,    *)
(* credit (handle_add), reserve (handle_subtract), status read             *)
(* (handle_status), the per-uuid lock registry app['locked_rows'] and the  *)
(* background settlement loop auto_update_hold.                            *)
(*                                                                         *)
(* The handlers are asyncio coroutines on one event loop: control changes  *)
(* hands only at an await.  Each action below is the code that runs        *)
(* between two awaits of one coroutine.                                    *)
(***************************************************************************)
EXTENDS Integers, Sequences, FiniteSets, TLC

\* ---- bounds of the model ----
NReq == 2        \* requests the server receives
MaxValue == 1    \* largest amount a request carries
MaxTicks == 1    \* settlement ticks

Reqs == 1..NReq
\* "a" is an active account, "b" an inactive one, "u" is absent from the table
Uuids == {"a", "b", "u"}
Values == (0 - 1)..MaxValue
Kinds == {"add", "subtract", "status"}

VARIABLES
  store,        \* the users table: uuid -> [balance, hold, status]
  init_store,   \* the table at start-up (never changes)
  locked_rows,  \* app['locked_rows']: uuid -> [lock, count]; DOMAIN = keys present
  locks,        \* the asyncio.Lock objects, named by the request whose
                \* call of asyncio.Lock() made them: [locked, waiters]
  pc,           \* where each request's coroutine is suspended
  kind,         \* which handler serves the request
  uuid,         \* local uuid
  value,        \* local value
  lock,         \* local lock (the object taken from, or put into, locked_rows)
  user_data,    \* local user_data (balance, hold) read from the table
  result,       \* the response status, or how the coroutine ended
  sched,        \* auto_update_hold and the process: "running" or "crashed"
  ticks,        \* settlement ticks done so far
  raced,        \* requests suspended in update_user_data when a tick ran
  serial,       \* the table that results from running, one after another and
                \* in the order they took their lock, the credits and
                \* reserves so far; empty once a tick, a store error or a
                \* cancellation has happened
  expected,     \* the response that serial run gives each request in flight
  race_seen     \* a request has left update_user_data after a tick ran
                \* while it was suspended there

vars == <<store, init_store, locked_rows, locks, pc, kind, uuid, value, lock,
          user_data, result, sched, ticks, raced, serial, expected,
          race_seen>>

NoData == [balance |-> 0, hold |-> 0]
NewLock == [locked |-> FALSE, waiters |-> <<>>]
NoRows == [x \in {} |-> [lock |-> 0, count |-> 0]]

\* a request that has put itself into locked_rows and not yet run its finally
Registered(r) == pc[r] \in {"waiting", "woken", "reading", "writing"}
\* a request inside `async with lock`
InCS(r) == pc[r] \in {"reading", "writing"}

\* ---- pure helpers ----

\* variant: the requested amount is left out of the comparison
subtraction_is_possible_lax(balance, hold, v) == hold <= balance

\* variant: strict comparison
subtraction_is_possible_strict(balance, hold, v) == hold + v < balance

subtraction_is_possible(balance, hold, v) == hold + v <= balance

\* variant: the assert on value is missing
valid_value_unchecked(v) == TRUE

\* assert isinstance(value, int) and value >= 0
valid_value(v) == v >= 0

\* variant: one lock for the whole table, the first one created
registry_get_global_lock(rows, u, fresh) ==
  IF u \in DOMAIN rows THEN rows[u]
  ELSE IF DOMAIN rows # {}
       THEN [lock |-> rows[CHOOSE x \in DOMAIN rows : TRUE].lock, count |-> 0]
       ELSE [lock |-> fresh, count |-> 0]

\* variant: every request takes the lock it has just created
registry_get_own_lock(rows, u, fresh) ==
  [lock |-> fresh, count |-> IF u \in DOMAIN rows THEN rows[u].count ELSE 0]

\* rows.get(uuid, (asyncio.Lock(), 0))
registry_get(rows, u, fresh) ==
  IF u \in DOMAIN rows THEN rows[u] ELSE [lock |-> fresh, count |-> 0]

\* rows[uuid] = (lock, counter + 1)
registry_enter(rows, u, e) ==
  [x \in DOMAIN rows \cup {u} |->
     IF x = u THEN [lock |-> e.lock, count |-> e.count + 1] ELSE rows[x]]

\* variant: the finally block deletes the entry whatever its count
registry_leave_always_delete(rows, u) ==
  [x \in DOMAIN rows \ {u} |-> rows[x]]

\* the finally block: delete the entry at count 1, else decrement (a missing
\* key raises KeyError and leaves the dict as it is)
registry_leave(rows, u) ==
  IF u \notin DOMAIN rows THEN rows
  ELSE IF rows[u].count = 1
       THEN [x \in DOMAIN rows \ {u} |-> rows[x]]
       ELSE [rows EXCEPT ![u].count = @ - 1]

\* variant: a lock nobody queues for is taken even when it is held
lock_is_free_unqueued(l) == l.waiters = <<>>

\* asyncio.Lock.acquire() without suspending: the lock is free and nobody queues
lock_is_free(l) == ~l.locked /\ l.waiters = <<>>

\* variant: release() does not wake anybody
wake_up_first_nobody(p, ws) == p

\* asyncio.Lock._wake_up_first: set the result of the first waiter's future
wake_up_first(p, ws) ==
  IF ws # <<>> /\ p[Head(ws)] = "waiting"
  THEN [p EXCEPT ![Head(ws)] = "woken"]
  ELSE p

RemoveWaiter(ws, r) == SelectSeq(ws, LAMBDA x : x # r)

\* variant: the UPDATE has no WHERE clause and sets the field in every row
update_user_data_no_where(st, u, field, val) ==
  [x \in DOMAIN st |-> [st[x] EXCEPT ![field] = val]]

\* update_user_data(conn, uuid, {field: val})
update_user_data(st, u, field, val) ==
  IF u \notin DOMAIN st THEN st
  ELSE IF field = "balance" THEN [st EXCEPT ![u].balance = val]
       ELSE [st EXCEPT ![u].hold = val]

\* variant: the UPDATE forgets hold=0
settle_keep_hold(st) ==
  [u \in DOMAIN st |-> [st[u] EXCEPT !.balance = st[u].balance - st[u].hold]]

\* variant: UPDATE ... WHERE status=1
settle_active_only(st) ==
  [u \in DOMAIN st |->
     IF st[u].status
     THEN [balance |-> st[u].balance - st[u].hold, hold |-> 0, status |-> TRUE]
     ELSE st[u]]

\* UPDATE users SET balance=balance-hold, hold=0
settle(st) ==
  [u \in DOMAIN st |->
     [balance |-> st[u].balance - st[u].hold, hold |-> 0, status |-> st[u].status]]

\* ---- initial state ----

Init ==
  /\ store = [u \in {"a", "b"} |->
                IF u = "a" THEN [balance |-> 2, hold |-> 1, status |-> TRUE]
                ELSE [balance |-> 1, hold |-> 1, status |-> FALSE]]
  /\ init_store = store
  /\ locked_rows = NoRows
  /\ locks = [l \in Reqs |-> NewLock]
  /\ pc = [r \in Reqs |-> "idle"]
  /\ kind = [r \in Reqs |-> "none"]
  /\ uuid = [r \in Reqs |-> "none"]
  /\ value = [r \in Reqs |-> 0]
  /\ lock = [r \in Reqs |-> 0]
  /\ user_data = [r \in Reqs |-> NoData]
  /\ result = [r \in Reqs |-> "none"]
  /\ sched = "running"
  /\ ticks = 0
  /\ raced = {}
  /\ serial = store
  /\ expected = [r \in Reqs |-> "none"]
  /\ race_seen = FALSE

\* ---- the request handlers ----

\* variant: the handler does not look at the account's status
ReadOutcome_no_status_check(k, v, row) ==
  IF k = "subtract" /\ ~subtraction_is_possible(row.balance, row.hold, v)
  THEN "403 balance too low"
  ELSE "go"
\* what the handler does with the row it read: the exception it raises, or "go"
ReadOutcome(k, v, row) ==
  IF ~row.status THEN "403 status is inactive"
  ELSE IF k = "subtract" /\ ~subtraction_is_possible(row.balance, row.hold, v)
       THEN "403 balance too low"
       ELSE "go"

\* the row an operation leaves when it runs alone on `row`
ApplyOp(row, k, v) ==
  IF ReadOutcome(k, v, row) # "go" THEN row
  ELSE IF k = "add" THEN [row EXCEPT !.balance = @ + v]
       ELSE [row EXCEPT !.hold = @ + v]

\* the response and the table when a credit or reserve runs alone on table st
SerialResponse(st, k, u, v) ==
  IF u \notin DOMAIN st THEN "404"
  ELSE IF ReadOutcome(k, v, st[u]) = "go" THEN "200"
       ELSE ReadOutcome(k, v, st[u])

SerialTable(st, k, u, v) ==
  IF u \notin DOMAIN st THEN st ELSE [st EXCEPT ![u] = ApplyOp(st[u], k, v)]

\* book-keeping of the serial run, the last conjunct of every action: a
\* request that takes its lock in this step runs next in the serial order
Acquires(r) == pc[r] \notin {"reading", "writing"} /\ pc'[r] = "reading"

Audit ==
  /\ race_seen' = (race_seen \/ \E r \in raced : pc'[r] = "done")
  /\ IF \/ DOMAIN serial = {}
        \/ ticks' # ticks
        \/ sched' # "running"
        \/ \E r \in Reqs : result'[r] \in {"500", "cancelled"}
     THEN /\ serial' = NoRows
          /\ expected' = [r \in Reqs |-> "none"]
     ELSE IF \E r \in Reqs : Acquires(r)
     THEN LET r == CHOOSE q \in Reqs : Acquires(q)
          IN  /\ serial' = SerialTable(serial, kind'[r], uuid'[r], value'[r])
              /\ expected' = [expected EXCEPT ![r] =
                     SerialResponse(serial, kind'[r], uuid'[r], value'[r])]
     ELSE /\ serial' = serial
          /\ expected' = [r \in Reqs |->
                             IF pc'[r] = "done" THEN "none" ELSE expected[r]]

\* requests are numbered in the order the server receives them
FreeSlot(r) == pc[r] = "idle" /\ \A q \in Reqs : q < r => pc[q] # "idle"

\* the field and the value a handler passes to update_user_data
WriteField(r) == IF kind[r] = "add" THEN "balance" ELSE "hold"
\* variant: the new value is computed from the row as it is at the UPDATE
WriteValue_current_row(r) ==
  IF kind[r] = "add" THEN store[uuid[r]].balance + value[r]
  ELSE store[uuid[r]].hold + value[r]
WriteValue(r) ==
  IF kind[r] = "add" THEN user_data[r].balance + value[r]
  ELSE user_data[r].hold + value[r]

\* the coroutine returns: its locals are gone, the response stays, and with a
\* 200 the request it answers
Retire(r, res, p) ==
  /\ pc' = [p EXCEPT ![r] = "done"]
  /\ result' = [result EXCEPT ![r] = res]
  /\ kind' = [kind EXCEPT ![r] = IF res = "200" THEN @ ELSE "none"]
  /\ uuid' = [uuid EXCEPT ![r] = IF res = "200" THEN @ ELSE "none"]
  /\ value' = [value EXCEPT ![r] = IF res = "200" THEN @ ELSE 0]
  /\ lock' = [lock EXCEPT ![r] = 0]
  /\ user_data' = [user_data EXCEPT ![r] = NoData]
  /\ raced' = raced \ {r}

\* json.loads / KeyError / the assert fail: 400 before anything is touched
BadRequest(r, k, v) ==
  /\ sched = "running"
  /\ FreeSlot(r)
  /\ k = "status" => v = 0
  /\ k # "status" => ~valid_value(v) \/ v = 0
  /\ Retire(r, "400", pc)
  /\ UNCHANGED <<store, init_store, locked_rows, locks, sched, ticks>>
  /\ Audit

\* variant: handle_status registers in locked_rows like the other handlers
StatusBegin_registers(r, u) ==
  /\ sched = "running"
  /\ FreeSlot(r)
  /\ pc' = [pc EXCEPT ![r] = "status"]
  /\ kind' = [kind EXCEPT ![r] = "status"]
  /\ uuid' = [uuid EXCEPT ![r] = u]
  /\ locked_rows' = registry_enter(locked_rows, u, registry_get(locked_rows, u, r))
  /\ UNCHANGED <<store, init_store, locks, value, lock, user_data,
                 result, sched, ticks, raced>>
  /\ Audit

\* handle_status up to its await of get_user_data_by_uuid
StatusBegin(r, u) ==
  /\ sched = "running"
  /\ FreeSlot(r)
  /\ pc' = [pc EXCEPT ![r] = "status"]
  /\ kind' = [kind EXCEPT ![r] = "status"]
  /\ uuid' = [uuid EXCEPT ![r] = u]
  /\ UNCHANGED <<store, init_store, locked_rows, locks, value, lock, user_data,
                 result, sched, ticks, raced>>
  /\ Audit

\* handle_status after the SELECT returned
StatusRead(r) ==
  /\ sched = "running"
  /\ pc[r] = "status"
  /\ Retire(r, IF uuid[r] \in DOMAIN store THEN "200" ELSE "404", pc)
  /\ UNCHANGED <<store, init_store, locked_rows, locks, sched, ticks>>
  /\ Audit

\* handle_add / handle_subtract from the parsed body to the first suspension:
\* register in locked_rows, then lock.acquire() takes a free lock at once or
\* queues a future behind the other waiters
Enter(r, k, u, v) ==
  /\ sched = "running"
  /\ FreeSlot(r)
  /\ k \in {"add", "subtract"}
  /\ valid_value(v)
  /\ LET e == registry_get(locked_rows, u, r)
         l == e.lock
     IN  /\ locked_rows' = registry_enter(locked_rows, u, e)
         /\ lock' = [lock EXCEPT ![r] = l]
         /\ IF lock_is_free(locks[l])
            THEN /\ locks' = [locks EXCEPT ![l].locked = TRUE]
                 /\ pc' = [pc EXCEPT ![r] = "reading"]
            ELSE /\ locks' = [locks EXCEPT ![l].waiters = Append(@, r)]
                 /\ pc' = [pc EXCEPT ![r] = "waiting"]
  /\ kind' = [kind EXCEPT ![r] = k]
  /\ uuid' = [uuid EXCEPT ![r] = u]
  /\ value' = [value EXCEPT ![r] = v]
  /\ UNCHANGED <<store, init_store, user_data, result, sched, ticks, raced>>
  /\ Audit

\* lock.acquire() resumes after its future got a result
Resume(r) ==
  /\ sched = "running"
  /\ pc[r] = "woken"
  /\ locks' = [locks EXCEPT ![lock[r]] =
                 [locked |-> TRUE, waiters |-> RemoveWaiter(@.waiters, r)]]
  /\ pc' = [pc EXCEPT ![r] = "reading"]
  /\ UNCHANGED <<store, init_store, locked_rows, kind, uuid, value, lock,
                 user_data, result, sched, ticks, raced>>
  /\ Audit

\* variant: the registry is tidied in the except clauses only, so an exception
\* they do not name (a store error, a cancellation) skips it
Leave_no_finally(r, res) ==
  /\ locks' = [locks EXCEPT ![lock[r]].locked = FALSE]
  /\ locked_rows' = IF res \in {"500", "cancelled"} THEN locked_rows
                    ELSE registry_leave(locked_rows, uuid[r])
  /\ Retire(r, res, wake_up_first(pc, locks[lock[r]].waiters))

\* variant: the UserNotFound clause returns before the registry is tidied
Leave_not_found_returns_early(r, res) ==
  /\ locks' = [locks EXCEPT ![lock[r]].locked = FALSE]
  /\ locked_rows' = IF res = "404" THEN locked_rows
                    ELSE registry_leave(locked_rows, uuid[r])
  /\ Retire(r, res, wake_up_first(pc, locks[lock[r]].waiters))

\* leaving `async with lock` (release), then the finally block, then return
Leave(r, res) ==
  /\ locks' = [locks EXCEPT ![lock[r]].locked = FALSE]
  /\ locked_rows' = registry_leave(locked_rows, uuid[r])
  /\ Retire(r, res, wake_up_first(pc, locks[lock[r]].waiters))

\* handle_add / handle_subtract after the SELECT returned, up to the await of
\* update_user_data or to the end of the handler
ReadAccount(r) ==
  /\ sched = "running"
  /\ pc[r] = "reading"
  /\ IF uuid[r] \notin DOMAIN store
     THEN Leave(r, "404")
     ELSE LET row == store[uuid[r]]
              out == ReadOutcome(kind[r], value[r], row)
          IN  IF out = "go"
              THEN /\ pc' = [pc EXCEPT ![r] = "writing"]
                   /\ user_data' = [user_data EXCEPT ![r] =
                          [balance |-> row.balance, hold |-> row.hold]]
                   /\ UNCHANGED <<locks, locked_rows, result, kind, uuid, value,
                                  lock, raced>>
              ELSE Leave(r, out)
  /\ UNCHANGED <<store, init_store, sched, ticks>>
  /\ Audit

\* update_user_data ran (UPDATE and commit), the handler returns 200
WriteAccount(r) ==
  /\ sched = "running"
  /\ pc[r] = "writing"
  /\ store' = update_user_data(store, uuid[r], WriteField(r), WriteValue(r))
  /\ Leave(r, "200")
  /\ UNCHANGED <<init_store, sched, ticks>>
  /\ Audit

\* a store call raises (sqlite error): nothing in the handler catches it, the
\* lock is released, the finally block runs, the server answers 500.  A failed
\* commit leaves the UPDATE applied on the shared connection (applied = TRUE).
StoreError(r, applied) ==
  /\ sched = "running"
  /\ pc[r] \in {"status", "reading", "writing"}
  /\ applied => pc[r] = "writing"
  /\ store' = IF applied
              THEN update_user_data(store, uuid[r], WriteField(r), WriteValue(r))
              ELSE store
  /\ IF pc[r] = "status"
     THEN /\ Retire(r, "500", pc)
          /\ UNCHANGED <<locks, locked_rows>>
     ELSE Leave(r, "500")
  /\ UNCHANGED <<init_store, sched, ticks>>
  /\ Audit

\* the handler's task is cancelled at the await it is suspended on
Cancel(r, applied) ==
  /\ sched = "running"
  /\ pc[r] \in {"status", "waiting", "woken", "reading", "writing"}
  /\ applied => pc[r] = "writing"
  /\ store' = IF applied
              THEN update_user_data(store, uuid[r], WriteField(r), WriteValue(r))
              ELSE store
  /\ IF pc[r] = "status"
     THEN /\ Retire(r, "cancelled", pc)
          /\ UNCHANGED <<locks, locked_rows>>
     ELSE IF pc[r] \in {"waiting", "woken"}
     THEN \* acquire(): remove the future; if the lock is free, wake the next
          LET rest == RemoveWaiter(locks[lock[r]].waiters, r)
          IN  /\ locks' = [locks EXCEPT ![lock[r]].waiters = rest]
              /\ locked_rows' = registry_leave(locked_rows, uuid[r])
              /\ Retire(r, "cancelled",
                        IF locks[lock[r]].locked THEN pc
                        ELSE wake_up_first(pc, rest))
     ELSE Leave(r, "cancelled")
  /\ UNCHANGED <<init_store, sched, ticks>>
  /\ Audit

\* ---- the settlement loop ----

\* one iteration of auto_update_hold: the sleep is over, the bulk UPDATE runs
Settle ==
  /\ sched = "running"
  /\ ticks < MaxTicks
  /\ store' = settle(store)
  /\ ticks' = ticks + 1
  /\ raced' = raced \cup {r \in Reqs : pc[r] = "writing"}
  /\ UNCHANGED <<init_store, locked_rows, locks, pc, kind, uuid, value, lock,
                 user_data, result, sched>>
  /\ Audit

\* the bulk UPDATE raises: the exception leaves the while loop, main()'s
\* gather re-raises it, run_until_complete raises and the process ends; the
\* coroutines, the locks and locked_rows go with it, the table stays
SettleFail ==
  /\ sched = "running"
  /\ sched' = "crashed"
  /\ locked_rows' = NoRows
  /\ locks' = [l \in Reqs |-> NewLock]
  /\ pc' = [r \in Reqs |-> "killed"]
  /\ kind' = [r \in Reqs |-> "none"]
  /\ uuid' = [r \in Reqs |-> "none"]
  /\ value' = [r \in Reqs |-> 0]
  /\ lock' = [r \in Reqs |-> 0]
  /\ user_data' = [r \in Reqs |-> NoData]
  /\ result' = [r \in Reqs |-> "none"]
  /\ raced' = {}
  /\ UNCHANGED <<store, init_store, ticks>>
  /\ Audit

Next ==
  \/ \E r \in Reqs, k \in Kinds, v \in Values : BadRequest(r, k, v)
  \/ \E r \in Reqs, u \in Uuids : StatusBegin(r, u)
  \/ \E r \in Reqs : StatusRead(r)
  \/ \E r \in Reqs, k \in Kinds, u \in Uuids, v \in Values : Enter(r, k, u, v)
  \/ \E r \in Reqs : Resume(r)
  \/ \E r \in Reqs : ReadAccount(r)
  \/ \E r \in Reqs : WriteAccount(r)
  \/ \E r \in Reqs, applied \in BOOLEAN : StoreError(r, applied)
  \/ \E r \in Reqs, applied \in BOOLEAN : Cancel(r, applied)
  \/ Settle
  \/ SettleFail

Spec == Init /\ [][Next]_vars

\* the runs in which every store call returns its result and no task is
\* cancelled: no StoreError, no Cancel, no failing tick
LiveNext ==
  \/ \E r \in Reqs, k \in Kinds, v \in Values : BadRequest(r, k, v)
  \/ \E r \in Reqs, u \in Uuids : StatusBegin(r, u)
  \/ \E r \in Reqs : StatusRead(r)
  \/ \E r \in Reqs, k \in Kinds, u \in Uuids, v \in Values : Enter(r, k, u, v)
  \/ \E r \in Reqs : Resume(r)
  \/ \E r \in Reqs : ReadAccount(r)
  \/ \E r \in Reqs : WriteAccount(r)
  \/ Settle

\* the event loop runs every callback that is ready: a coroutine whose
\* future has a result (lock handed over, store call returned) is resumed
Fairness ==
  \A r \in Reqs :
    WF_vars(StatusRead(r) \/ Resume(r) \/ ReadAccount(r) \/ WriteAccount(r))

LiveSpec == Init /\ [][LiveNext]_vars /\ Fairness

TypeOK ==
  /\ DOMAIN store = {"a", "b"}
  /\ DOMAIN locked_rows \subseteq Uuids
  /\ \A r \in Reqs : pc[r] \in {"idle", "status", "waiting", "woken", "reading",
                                "writing", "done", "killed"}
  /\ sched \in {"running", "crashed"}
  /\ ticks \in 0..MaxTicks

\* ---- properties ----

\* C1: for each account id at most one credit or reserve is inside its
\* critical section (from its read of the account to the end of its update)
C1_MutualExclusion ==
  \A r1, r2 \in Reqs :
    (r1 # r2 /\ InCS(r1) /\ InCS(r2)) => uuid[r1] # uuid[r2]

\* a request waits while another one on the same id is writing
C1_Witness ==
  \E r1, r2 \in Reqs :
    pc[r1] = "writing" /\ pc[r2] = "waiting" /\ uuid[r1] = uuid[r2]

\* C2: all requests registered for one id and not yet released reference the
\* same lock object
C2_SinglePrimitive ==
  \A r1, r2 \in Reqs :
    (Registered(r1) /\ Registered(r2) /\ uuid[r1] = uuid[r2])
      => lock[r1] = lock[r2]

\* two requests are registered for one id and hold the lock object of its
\* entry, which the first of them created
C2_Witness ==
  /\ \E r1, r2 \in Reqs :
       /\ r1 # r2 /\ Registered(r1) /\ Registered(r2)
       /\ uuid[r1] = uuid[r2] /\ lock[r1] = lock[r2]
       /\ locked_rows[uuid[r1]].lock = lock[r1]

\* C3: NReq concurrent credit(a, 1) calls and nothing else (no tick, no store
\* error, no cancellation): a credit of an active account never answers
\* 400/403/404, and when all have answered 200 the balance is the start
\* balance plus NReq
C3_AllCreditsDone ==
  /\ ticks = 0
  /\ \A r \in Reqs :
       pc[r] = "done" /\ result[r] = "200" /\ kind[r] = "add" /\ value[r] = 1

C3_NoLostCredit ==
  /\ [](C3_AllCreditsDone =>
          store["a"].balance = init_store["a"].balance + NReq)
  /\ [][\A r \in Reqs :
          (Registered(r) /\ kind[r] = "add" /\ uuid[r] = "a" /\ pc'[r] = "done")
            => result'[r] \in {"200", "500", "cancelled"}]_vars

C3_Witness == C3_AllCreditsDone /\ store["a"].balance > init_store["a"].balance

\* C4: a settlement tick whose bulk update fails leaves the scheduler loop and
\* the process running
C4_SchedulerSurvivesFailedTick == sched = "running"

\* C5: when a registered credit or reserve ends (200, 403, 404, store error,
\* cancellation) it no longer holds or queues for the lock, the id's count is
\* one less (the entry is gone at count 1), and the next contender is woken
C5_ReleaseOnEveryExit ==
  [][\A r \in Reqs :
       (Registered(r) /\ pc'[r] = "done") =>
         LET u == uuid[r]
             l == lock[r]
         IN  /\ InCS(r) => ~locks'[l].locked
             /\ \A i \in 1..Len(locks'[l].waiters) : locks'[l].waiters[i] # r
             /\ (~locks'[l].locked /\ locks'[l].waiters # <<>>)
                   => pc'[Head(locks'[l].waiters)] = "woken"
             /\ u \in DOMAIN locked_rows
             /\ IF locked_rows[u].count = 1
                THEN u \notin DOMAIN locked_rows'
                ELSE /\ u \in DOMAIN locked_rows'
                     /\ locked_rows'[u] =
                          [lock |-> l, count |-> locked_rows[u].count - 1]
    ]_vars

\* a request ended with a store error or a cancellation and the request queued
\* behind it was woken
C5_Witness ==
  \E r1, r2 \in Reqs :
    /\ pc[r1] = "done" /\ result[r1] \in {"500", "cancelled"}
    /\ pc[r2] = "woken"
    /\ locked_rows[uuid[r2]].count = 1

\* C6: locked_rows has an entry for an id exactly when some credit or reserve
\* on it is registered and not released, and the count is their number
InFlight(u) == {r \in Reqs : Registered(r) /\ uuid[r] = u}

C6_RegistryAccounting ==
  \A u \in Uuids :
    /\ u \in DOMAIN locked_rows <=> InFlight(u) # {}
    /\ u \in DOMAIN locked_rows => locked_rows[u].count = Cardinality(InFlight(u))

\* an entry counts two requests
C6_Witness == \E u \in DOMAIN locked_rows : locked_rows[u].count = 2

SettleRow(row) == [row EXCEPT !.balance = @ - row.hold, !.hold = 0]

\* C7: when a tick runs between the read and the update of a credit or reserve
\* that read a non-zero hold, the row the update leaves is neither the one of
\* settlement-then-operation nor the one of operation-then-settlement
C7_SettlementRace ==
  [][\A r \in Reqs :
       (pc[r] = "writing" /\ r \in raced /\ user_data[r].hold > 0
          /\ pc'[r] = "done" /\ result'[r] = "200") =>
         LET read == [balance |-> user_data[r].balance,
                      hold |-> user_data[r].hold, status |-> TRUE]
         IN  /\ store'[uuid[r]] # ApplyOp(SettleRow(read), kind[r], value[r])
             /\ store'[uuid[r]] # SettleRow(ApplyOp(read, kind[r], value[r]))
    ]_vars

\* one request and one tick, nothing else: the final row of "a" is neither
\* serial outcome computed from the start row
C7_Witness ==
  /\ ticks = 1
  /\ pc[1] = "done" /\ result[1] = "200" /\ kind[1] \in {"add", "subtract"}
  /\ \A r \in Reqs : r # 1 => pc[r] = "idle"
  /\ store["a"] # ApplyOp(SettleRow(init_store["a"]), kind[1], value[1])
  /\ store["a"] # SettleRow(ApplyOp(init_store["a"], kind[1], value[1]))

\* C8: a reserve on an existing active account goes on to its update exactly
\* when hold + amount <= balance for the row it read; otherwise it answers
\* 403 balance too low and the table is unchanged; the update it makes sets
\* hold to the hold it read plus the amount
C8_ReserveApproval ==
  [][\A r \in Reqs :
       /\ (pc[r] = "reading" /\ kind[r] = "subtract"
             /\ uuid[r] \in DOMAIN store /\ store[uuid[r]].status
             /\ pc'[r] \in {"writing", "done"}
             /\ result'[r] \notin {"500", "cancelled"}) =>
            IF store[uuid[r]].hold + value[r] <= store[uuid[r]].balance
            THEN /\ pc'[r] = "writing"
                 /\ user_data'[r].hold = store[uuid[r]].hold
            ELSE /\ pc'[r] = "done"
                 /\ result'[r] = "403 balance too low"
                 /\ store' = store
       /\ (pc[r] = "writing" /\ kind[r] = "subtract" /\ result'[r] = "200") =>
            /\ user_data[r].hold + value[r] <= user_data[r].balance
            /\ store'[uuid[r]].hold = user_data[r].hold + value[r]
    ]_vars

\* one reserve was approved and the next one on the same account was refused
C8_Witness ==
  \E r1, r2 \in Reqs :
    /\ result[r1] = "200" /\ kind[r1] = "subtract" /\ value[r1] > 0
    /\ result[r2] = "403 balance too low"

\* C9: a settlement tick replaces, in one step and for every account, active
\* or not, (balance, hold) by (balance - hold, 0)
C9_SettlementEffect ==
  [][ticks' # ticks =>
       /\ DOMAIN store' = DOMAIN store
       /\ \A u \in DOMAIN store :
            store'[u] = [balance |-> store[u].balance - store[u].hold,
                         hold |-> 0, status |-> store[u].status]
    ]_vars

\* after a tick the inactive account is settled too
C9_Witness ==
  /\ ticks = 1
  /\ store["b"] = [balance |-> init_store["b"].balance - init_store["b"].hold,
                   hold |-> 0, status |-> FALSE]
  /\ init_store["b"].hold > 0

\* C10: every account has hold >= 0
C10_HoldNonNegative == \A u \in DOMAIN store : store[u].hold >= 0

\* a reserve raced with a tick and left a positive hold
C10_Witness ==
  \E r \in Reqs :
    /\ result[r] = "200" /\ kind[r] = "subtract" /\ ticks > 0
    /\ store["a"].hold > 0


\* the registry after request r dropped its interest in uuid[r] in this step
Released(r) ==
  /\ ~locks'[lock[r]].locked
  /\ IF locked_rows[uuid[r]].count = 1
     THEN uuid[r] \notin DOMAIN locked_rows'
     ELSE /\ uuid[r] \in DOMAIN locked_rows'
          /\ locked_rows'[uuid[r]].count = locked_rows[uuid[r]].count - 1
          /\ locked_rows'[uuid[r]].lock = locked_rows[uuid[r]].lock

\* C11: a credit or reserve whose SELECT finds an account with status false
\* ends in this step, answers 403 "status is inactive" (unless the SELECT
\* itself raised or the task was cancelled), never reaches update_user_data,
\* leaves the table as it is, releases its lock and drops its registry count
C11_InactiveNotMutated ==
  [][\A r \in Reqs :
       ( /\ pc[r] = "reading"
         /\ uuid[r] \in DOMAIN store
         /\ ~store[uuid[r]].status
         /\ pc'[r] # "reading"
         /\ sched' = "running" )
       => /\ pc'[r] = "done"
          /\ result'[r] \in {"403 status is inactive", "500", "cancelled"}
          /\ (pc[r] = "reading" /\ ReadAccount(r))
                => result'[r] = "403 status is inactive"
          /\ store' = store
          /\ Released(r)]_vars

\* a request on the inactive account was answered 403, the row is as it was
\* at the start and the registry holds no entry for the id
C11_Witness ==
  /\ \E r \in Reqs : result[r] = "403 status is inactive"
  /\ ticks = 0
  /\ store["b"] = init_store["b"]
  /\ "b" \notin DOMAIN locked_rows

\* C12: a status, credit or reserve whose SELECT finds no row for its id ends
\* in that step with 404 (unless the SELECT raised or the task was cancelled)
\* and leaves the table as it is; the status handler leaves the registry as
\* it is, a credit or reserve drops its count and the entry goes with the
\* last count
C12_UnknownAccount ==
  [][\A r \in Reqs :
       ( /\ pc[r] \in {"status", "reading"}
         /\ uuid[r] \notin DOMAIN store
         /\ pc'[r] # pc[r]
         /\ sched' = "running" )
       => /\ pc'[r] = "done"
          /\ result'[r] \in {"404", "500", "cancelled"}
          /\ (StatusRead(r) \/ ReadAccount(r)) => result'[r] = "404"
          /\ store' = store
          /\ IF pc[r] = "status"
             THEN locked_rows' = locked_rows /\ locks' = locks
             ELSE Released(r)]_vars

\* the first credit or reserve on the unknown id was answered 404 while the
\* second, which shares its lock, is still registered: the entry stays, with
\* count 1
C12_Witness ==
  /\ NReq >= 2
  /\ result[1] = "404"
  /\ Registered(2) /\ uuid[2] = "u" /\ lock[2] = 1
  /\ "u" \in DOMAIN locked_rows /\ locked_rows["u"].count = 1

\* C13: requests registered for different ids never share a lock; a request
\* that waits for its lock waits behind a request on its own id that holds the
\* lock or has just been handed it; and an arriving credit or reserve queues
\* exactly when another request on its own id is registered, whatever the
\* requests on other ids are doing
C13_CrossAccountIndependence ==
  /\ [](\A r1, r2 \in Reqs :
          (Registered(r1) /\ Registered(r2) /\ lock[r1] = lock[r2])
            => uuid[r1] = uuid[r2])
  /\ [](\A r \in Reqs :
          pc[r] = "waiting"
            => \E q \in Reqs \ {r} :
                 uuid[q] = uuid[r] /\ pc[q] \in {"woken", "reading", "writing"})
  /\ [][\A r \in Reqs :
          (pc[r] = "idle" /\ pc'[r] \in {"waiting", "reading"})
            => (pc'[r] = "waiting"
                  <=> \E q \in Reqs \ {r} :
                        Registered(q) /\ uuid[q] = uuid'[r])]_vars

\* the second request arrived while the first held the lock of another id and
\* entered its critical section at once
C13_Witness ==
  /\ NReq >= 2
  /\ InCS(1) /\ uuid[1] = "a"
  /\ pc[2] = "reading" /\ uuid[2] = "b"


\* C14: while no tick, store error or cancellation has happened, every
\* credit or reserve that ends gets the response the serial run in
\* lock-acquisition order gave it, and every account on which no request is
\* inside its critical section has the balance and hold of that serial run
C14_SerialEquivalence ==
  /\ [](\A u \in DOMAIN store :
          (DOMAIN serial # {} /\ ~\E r \in Reqs : InCS(r) /\ uuid[r] = u)
            => (u \in DOMAIN serial /\ store[u] = serial[u]))
  /\ [][\A r \in Reqs :
          (InCS(r) /\ pc'[r] = "done" /\ DOMAIN serial' # {})
            => result'[r] = expected[r]]_vars

\* two reserves of 1 on account a overlapped: the first was approved, the
\* second queued behind it, took the lock after it, and the serial run
\* answers it "balance too low"
C14_Witness ==
  /\ NReq >= 2
  /\ DOMAIN serial # {}
  /\ result[1] = "200" /\ kind[1] = "subtract" /\ uuid[1] = "a"
  /\ InCS(2) /\ lock[2] = 1 /\ kind[2] = "subtract"
  /\ expected[2] = "403 balance too low"

\* C15: a credit or reserve that answers 200 does so from update_user_data,
\* holding the lock registered for its id; that step sets balance (credit) or
\* hold (reserve) of its account to the value it read plus the amount and
\* changes nothing else in the table; the request's earlier steps (register,
\* acquire, read) leave the table as it is
C15_EffectAndFrame ==
  [][\A r \in Reqs :
       /\ (result[r] # "200" /\ result'[r] = "200" /\ kind'[r] = "add")
            => /\ pc[r] = "writing"
               /\ locks[lock[r]].locked
               /\ locked_rows[uuid[r]].lock = lock[r]
               /\ store' = [store EXCEPT ![uuid[r]].balance =
                                user_data[r].balance + value[r]]
       /\ (result[r] # "200" /\ result'[r] = "200" /\ kind'[r] = "subtract")
            => /\ pc[r] = "writing"
               /\ locks[lock[r]].locked
               /\ locked_rows[uuid[r]].lock = lock[r]
               /\ store' = [store EXCEPT ![uuid[r]].hold =
                                user_data[r].hold + value[r]]
       /\ ( \/ pc[r] = "idle" /\ pc'[r] \in {"waiting", "reading"}
            \/ pc[r] = "woken" /\ pc'[r] = "reading"
            \/ pc[r] = "reading" /\ pc'[r] = "writing" )
            => store' = store]_vars

\* a credit and a reserve of 1 on account a were both answered 200 with no
\* tick: balance and hold are one higher, the other account is as it was
C15_Witness ==
  /\ \E r1, r2 \in Reqs :
       /\ result[r1] = "200" /\ kind[r1] = "add" /\ value[r1] = 1
       /\ result[r2] = "200" /\ kind[r2] = "subtract" /\ value[r2] = 1
       /\ uuid[r1] = "a" /\ uuid[r2] = "a"
  /\ ticks = 0
  /\ store["a"].balance = init_store["a"].balance + 1
  /\ store["a"].hold = init_store["a"].hold + 1
  /\ store["a"].status = init_store["a"].status
  /\ store["b"] = init_store["b"]


\* C17: a status request is never queued for or inside a lock and holds no
\* lock reference; both of its steps leave the table, locked_rows and every
\* lock as they are; and once its SELECT is in flight it can finish in any
\* state, whoever holds the lock of its id
C17_StatusBypassesExclusion ==
  /\ [](\A r \in Reqs :
          kind[r] = "status"
            => /\ pc[r] \in {"status", "done"}
               /\ lock[r] = 0
               /\ (pc[r] = "status" /\ sched = "running")
                    => ENABLED StatusRead(r))
  /\ [][\A r \in Reqs :
          ( \/ pc[r] = "idle" /\ pc'[r] = "status"
            \/ pc[r] = "status" /\ pc'[r] = "done" )
            => /\ store' = store
               /\ locked_rows' = locked_rows
               /\ locks' = locks]_vars

\* a status request on account a arrived and was answered 200 while an
\* earlier credit or reserve on a is still inside update_user_data
C17_Witness ==
  \E r1, r2 \in Reqs :
    /\ r1 < r2
    /\ pc[r1] = "writing" /\ uuid[r1] = "a"
    /\ pc[r2] = "done" /\ result[r2] = "200"
    /\ kind[r2] = "status" /\ uuid[r2] = "a"
    /\ locked_rows["a"].count = 1

\* C18: from 0 <= hold <= balance at the start, as long as no request has
\* finished an update that a tick overtook between its read and its write,
\* every account has 0 <= hold <= balance, so no tick makes a balance negative
C18_Solvency ==
  /\ \A u \in DOMAIN init_store :
       0 <= init_store[u].hold /\ init_store[u].hold <= init_store[u].balance
  /\ ~race_seen
       => \A u \in DOMAIN store :
            0 <= store[u].hold /\ store[u].hold <= store[u].balance

\* a reserve was approved, a tick settled holds, no update was overtaken by a
\* tick, and account a's balance is below its initial value
C18_Witness ==
  /\ ticks >= 1
  /\ ~race_seen
  /\ \E r \in Reqs : result[r] = "200" /\ kind[r] = "subtract"
                        /\ uuid[r] = "a" /\ value[r] >= 1
  /\ store["a"].balance < init_store["a"].balance
  /\ store["a"].balance >= 0

\* the requests of one kind on account u that were answered 200
Approved(u, k) ==
  {r \in Reqs : result[r] = "200" /\ kind[r] = k /\ uuid[r] = u}

RECURSIVE SumValues(_)
SumValues(S) ==
  IF S = {} THEN 0
  ELSE LET r == CHOOSE x \in S : TRUE
       IN  value[r] + SumValues(S \ {r})

\* C19: a tick leaves balance - hold of every account as it is; and while no
\* update was overtaken by a tick and no request ended in a store error or a
\* cancellation, balance - hold of every account is its initial balance -
\* hold plus the amounts of the credits answered 200 minus the amounts of the
\* reserves answered 200
C19_AvailableFunds ==
  /\ [][ticks' # ticks
          => \A u \in DOMAIN store :
               store'[u].balance - store'[u].hold
                 = store[u].balance - store[u].hold]_vars
  /\ []( ( /\ ~race_seen
           /\ sched = "running"
           /\ \A r \in Reqs : result[r] \notin {"500", "cancelled"} )
         => \A u \in DOMAIN store :
              store[u].balance - store[u].hold
                = init_store[u].balance - init_store[u].hold
                    + SumValues(Approved(u, "add"))
                    - SumValues(Approved(u, "subtract")) )

\* a credit and a reserve on account a were answered 200 and a tick ran: the
\* hold is settled and balance - hold is the initial one
C19_Witness ==
  /\ ticks >= 1
  /\ ~race_seen
  /\ \E r1, r2 \in Reqs :
       /\ result[r1] = "200" /\ kind[r1] = "add" /\ value[r1] = 1
       /\ result[r2] = "200" /\ kind[r2] = "subtract" /\ value[r2] = 1
       /\ uuid[r1] = "a" /\ uuid[r2] = "a"
  /\ store["a"].hold = 0
  /\ store["a"].balance = init_store["a"].balance - init_store["a"].hold


====
